---- MODULE Spec2Model ----
(***************************************************************************)
(* Model of src/generate_docs.py: the two documentation extractors         *)
(* (parse_python, parse_generic_comments), the in-memory graph             *)
(* (GraphSimple) and the pipeline main().                                  *)
(*                                                                         *)
(* A text (Python str) is a sequence of tokens.  The characters that the   *)
(* code inspects ("/", "*", "#", " ", newline, ".", letters of file names) *)
(* are one-character tokens; a literal the code only copies (such as       *)
(* "comment_block" or "Methods:") is one token.                            *)
(***************************************************************************)
EXTENDS Integers, Sequences, FiniteSets, TLC

\* ---------------------------------------------------------------- bounds
MaxLen == 6
MaxFiles == 2
MaxRuns == 2

\* --------------------------------------------------------- text helpers
NL == "\n"
\* the token of the backquote character
BACKQUOTE == "BACKQUOTE"
WS == {" ", NL}

Min(S) == CHOOSE x \in S : \A y \in S : x <= y

StartsWith(s, p) ==
  /\ Len(s) >= Len(p)
  /\ SubSeq(s, 1, Len(p)) = p

EndsWith(s, p) ==
  /\ Len(s) >= Len(p)
  /\ SubSeq(s, Len(s) - Len(p) + 1, Len(s)) = p

RECURSIVE LStrip(_)
LStrip(s) ==
  IF s # <<>> /\ Head(s) \in WS THEN LStrip(Tail(s)) ELSE s

RECURSIVE RStrip(_)
RStrip(s) ==
  IF s # <<>> /\ s[Len(s)] \in WS THEN RStrip(SubSeq(s, 1, Len(s) - 1)) ELSE s

Strip(s) == RStrip(LStrip(s))

\* str.splitlines(): a trailing newline does not open a last empty line
RECURSIVE SplitLines(_)
SplitLines(s) ==
  IF s = <<>> THEN <<>>
  ELSE LET brk == {i \in 1..Len(s) : s[i] = NL}
       IN IF brk = {} THEN <<s>>
          ELSE LET i == Min(brk)
               IN <<SubSeq(s, 1, i - 1)>> \o SplitLines(SubSeq(s, i + 1, Len(s)))

\* sep.join(parts)
RECURSIVE Join(_, _)
Join(parts, sep) ==
  IF parts = <<>> THEN <<>>
  ELSE IF Len(parts) = 1 THEN parts[1]
  ELSE parts[1] \o sep \o Join(Tail(parts), sep)

\* ------------------------------------------- parse_generic_comments
At2(s, i, a, b) == i >= 1 /\ i + 1 <= Len(s) /\ s[i] = a /\ s[i + 1] = b

\* cblock_re.finditer(content): the matches of /\*(.*?)\*/ from position
\* pos on, leftmost first, each ending at the first "*/" after its "/*";
\* a match is <<position of "/*", position of "*/">>.
RECURSIVE BlockMatches(_, _)
BlockMatches(s, pos) ==
  LET opens == {i \in pos..Len(s) :
                  /\ At2(s, i, "/", "*")
                  /\ \E j \in (i + 2)..Len(s) : At2(s, j, "*", "/")}
  IN IF opens = {} THEN <<>>
     ELSE LET i == Min(opens)
              j == Min({k \in (i + 2)..Len(s) : At2(s, k, "*", "/")})
          IN <<<<i, j>>>> \o BlockMatches(s, j + 2)

COMMENT_BLOCK == <<"comment_block">>

RECURSIVE BlockItems(_, _)
BlockItems(s, ms) ==
  IF ms = <<>> THEN <<>>
  ELSE LET snippet == Strip(SubSeq(s, ms[1][1] + 2, ms[1][2] - 1))
       IN (IF snippet # <<>> THEN <<<<COMMENT_BLOCK, snippet>>>> ELSE <<>>)
          \o BlockItems(s, Tail(ms))

FlushBuff(buff) == <<<<COMMENT_BLOCK, Strip(Join(buff, <<NL>>))>>>>

\* LineLoop with a fault: the buffer left at the end of input is dropped
RECURSIVE LineLoopNoFinalFlush(_, _)
LineLoopNoFinalFlush(lines, buff) ==
  IF lines = <<>> THEN <<>>
  ELSE LET stripped == Strip(Head(lines))
       IN IF StartsWith(stripped, <<"/", "/">>)
          THEN LineLoopNoFinalFlush(Tail(lines),
                  Append(buff, Strip(SubSeq(stripped, 3, Len(stripped)))))
          ELSE IF StartsWith(stripped, <<"#">>)
          THEN LineLoopNoFinalFlush(Tail(lines),
                  Append(buff, Strip(SubSeq(stripped, 2, Len(stripped)))))
          ELSE (IF buff # <<>> THEN FlushBuff(buff) ELSE <<>>)
               \o LineLoopNoFinalFlush(Tail(lines), <<>>)

\* the loop over lines with its buffer, and the flush after the loop
RECURSIVE LineLoop(_, _)
LineLoop(lines, buff) ==
  IF lines = <<>> THEN (IF buff # <<>> THEN FlushBuff(buff) ELSE <<>>)
  ELSE LET stripped == Strip(Head(lines))
       IN IF StartsWith(stripped, <<"/", "/">>)
          THEN LineLoop(Tail(lines),
                  Append(buff, Strip(SubSeq(stripped, 3, Len(stripped)))))
          ELSE IF StartsWith(stripped, <<"#">>)
          THEN LineLoop(Tail(lines),
                  Append(buff, Strip(SubSeq(stripped, 2, Len(stripped)))))
          ELSE (IF buff # <<>> THEN FlushBuff(buff) ELSE <<>>)
               \o LineLoop(Tail(lines), <<>>)

parse_generic_comments(content) ==
  BlockItems(content, BlockMatches(content, 1))
    \o LineLoop(SplitLines(content), <<>>)


\* ------------------------------------------------------- parse_python
\* The source texts of the model.  T_mod is a well-formed Python module
\* (one opaque token per statement, a "#" comment line in between), T_c is
\* C text, which is not Python, and T_empty is the empty file.
T_empty == <<>>
T_mod == <<"'M'", NL, "#", "c", NL, "def f(): 'Does X.'", NL,
           "async def g(): pass", NL, "class C: ...", NL, "class D: pass">>
T_c == <<"/", "*", "A", "*", "/", NL, "/", "/", "x", NL, "/", "/", "y">>
Contents == {T_empty, T_mod, T_c}

\* an optional docstring: <<>> is None, <<d>> is the string d
NoDoc == <<>>
Doc(d) == <<d>>
SyntaxError == [raises |-> TRUE]

Stmt(kind, name, doc, body) ==
  [kind |-> kind, name |-> name, doc |-> doc, body |-> body]

\* ast.parse(content) on the texts above: the tree, or SyntaxError.
\* doc is what ast.get_docstring returns for the node.
ast_parse(content) ==
  CASE content = T_empty -> [raises |-> FALSE, doc |-> NoDoc, body |-> <<>>]
    [] content = T_mod ->
         [raises |-> FALSE, doc |-> Doc(<<"M">>),
          body |-> << Stmt("Expr", "", NoDoc, <<>>),
                      Stmt("FunctionDef", "f", Doc(<<"Does X.">>), <<>>),
                      Stmt("AsyncFunctionDef", "g", NoDoc, <<>>),
                      Stmt("ClassDef", "C", NoDoc,
                           << Stmt("FunctionDef", "m1", Doc(<<"returns 1">>), <<>>),
                              Stmt("Assign", "", NoDoc, <<>>),
                              Stmt("FunctionDef", "m2", NoDoc, <<>>) >>),
                      Stmt("ClassDef", "D", NoDoc,
                           << Stmt("Pass", "", NoDoc, <<>>) >>) >>]
    [] OTHER -> SyntaxError

\* ast.get_docstring(node) or ""
DocOrEmpty(node) == IF node.doc = NoDoc THEN <<>> ELSE node.doc[1]

\* x or y, for strings
Or(x, y) == IF x # <<>> THEN x ELSE y

RECURSIVE Methods(_)
Methods(body) ==
  IF body = <<>> THEN <<>>
  ELSE (IF Head(body).kind \in {"FunctionDef", "AsyncFunctionDef"}
        THEN <<<<Head(body).name, Strip(DocOrEmpty(Head(body)))>>>>
        ELSE <<>>) \o Methods(Tail(body))

RECURSIVE MethodLines(_)
MethodLines(methods) ==
  IF methods = <<>> THEN <<>>
  ELSE <<"- ", Head(methods)[1], "(): ">>
       \o Or(Head(methods)[2], <<"(no doc)">>) \o <<NL>>
       \o MethodLines(Tail(methods))

ClassItem(node) ==
  LET methods == Methods(node.body)
      body_lines == Strip(DocOrEmpty(node))
                    \o (IF methods # <<>>
                        THEN <<NL, NL, "Methods:", NL>> \o MethodLines(methods)
                        ELSE <<>>)
  IN <<<<"class ", node.name>>, Or(Strip(body_lines), <<"(no doc)">>)>>

RECURSIVE ModuleBodyItems(_)
ModuleBodyItems(body) ==
  IF body = <<>> THEN <<>>
  ELSE LET node == Head(body)
       IN (CASE node.kind = "FunctionDef" ->
                  <<<<<<"def ", node.name, "()">>, Strip(DocOrEmpty(node))>>>>
             [] node.kind = "AsyncFunctionDef" ->
                  <<<<<<"async def ", node.name, "()">>, Strip(DocOrEmpty(node))>>>>
             [] node.kind = "ClassDef" -> <<ClassItem(node)>>
             [] OTHER -> <<>>)
          \o ModuleBodyItems(Tail(body))

\* parse_python with a fault: a text that does not parse yields no items
parse_python_no_fallback(content) ==
  LET module == ast_parse(content)
  IN IF module.raises THEN <<>>
     ELSE (IF DocOrEmpty(module) # <<>>
           THEN <<<<<<"module">>, Strip(DocOrEmpty(module))>>>> ELSE <<>>)
          \o ModuleBodyItems(module.body)

parse_python(content) ==
  LET module == ast_parse(content)
  IN IF module.raises THEN parse_generic_comments(content)
     ELSE (IF DocOrEmpty(module) # <<>>
           THEN <<<<<<"module">>, Strip(DocOrEmpty(module))>>>> ELSE <<>>)
          \o ModuleBodyItems(module.body)

\* ------------------------------------------------ file names and paths
LowerChar(c) ==
  CASE c = "A" -> "a" [] c = "P" -> "p" [] c = "Y" -> "y" [] OTHER -> c

\* str.lower()
Lower(s) == [i \in 1..Len(s) |-> LowerChar(s[i])]

EXT_PY == <<".", "p", "y">>
ALLOW_LIST == { EXT_PY, <<".", "j", "s">>, <<".", "j", "a", "v", "a">>,
                <<".", "t", "s">>, <<".", "c", "p", "p">>,
                <<".", "c">>, <<".", "h">> }

\* fn.lower().endswith((".py", ".js", ".java", ".ts", ".cpp", ".c", ".h"))
Admitted(fn) == \E e \in ALLOW_LIST : EndsWith(Lower(fn), e)

\* PurePath.suffix: from the last dot on, unless that dot is the first or
\* the last character of the name
PathSuffix(name) ==
  LET dots == {i \in 1..Len(name) : name[i] = "."}
  IN IF dots = {} THEN <<>>
     ELSE LET i == CHOOSE d \in dots : \A e \in dots : e <= d
          IN IF 1 < i /\ i < Len(name) THEN SubSeq(name, i, Len(name))
             ELSE <<>>

\* str.lstrip(".")
RECURSIVE LStripDots(_)
LStripDots(s) ==
  IF s # <<>> /\ Head(s) = "." THEN LStripDots(Tail(s)) ELSE s

\* str(Path(root) / fn)
PathStr(root, fn) == root \o <<"/">> \o fn

\* Path(s).name: what follows the last "/"
PathName(s) ==
  LET sl == {i \in 1..Len(s) : s[i] = "/"}
  IN IF sl = {} THEN s
     ELSE SubSeq(s, (CHOOSE d \in sl : \A e \in sl : e <= d) + 1, Len(s))

SRC_DIR == <<"src">>
SUB_DIR == <<"src", "/", "pkg">>
Roots == {SRC_DIR, SUB_DIR}
FileNames == { <<"a", ".", "p", "y">>, <<"A", ".", "P", "Y">>,
               <<"b", ".", "c">>, <<"n", ".", "t", "x", "t">> }

\* ---------------------------------------------------------------- state
VARIABLES
  tree,        \* the files under SRC_DIR, in the order os.walk yields them
  docs,        \* DOCS_DIR: output file name -> text
  run,         \* number of the current invocation of main()
  pc,          \* position in main()
  js_runtime,  \* main.js_runtime
  file_paths,  \* main.file_paths
  idx,         \* position of for path in file_paths
  content,     \* main.content
  file_node,   \* main.file_node (a node is named by its position in g.nodes)
  items,       \* main.items
  k,           \* position of for title, body in items
  doc_node,    \* main.doc_node
  g_nodes,     \* g.nodes
  g_edges,     \* g.edges
  r,           \* position of for file_node in g.find_nodes("file")
  writes,      \* history: the write_text calls of this run
  extracted,   \* history: per file of this run, the extractor and its result
  snap         \* history: graph, writes and docs at the end of the first run

vars == <<tree, docs, run, pc, js_runtime, file_paths, idx, content,
          file_node, items, k, doc_node, g_nodes, g_edges, r, writes,
          extracted, snap>>

\* ---------------------------------------------------------- GraphSimple
Node(j_type, props) == [j_type |-> j_type, props |-> props]

\* Edge with a fault: source and destination change places
EdgeSwapped(j_type, src, dst) == [j_type |-> j_type, source |-> dst, dest |-> src]

Edge(j_type, src, dst) == [j_type |-> j_type, source |-> src, dest |-> dst]

add_node(nodes, j_type, props) == Append(nodes, Node(j_type, props))

add_edge(edges, j_type, src, dst) == Append(edges, Edge(j_type, src, dst))

find_nodes(nodes, j_type) ==
  LET ids == [i \in 1..Len(nodes) |-> i]
      Match(i) == nodes[i].j_type = j_type
  IN SelectSeq(ids, Match)

\* ------------------------------------------------------ external runtime
\* A runtime object is "Runtime", whose entry points return, or
\* "FaultyRuntime", whose entry points all raise; "NoRuntime" is None.
NoRuntime == "NoRuntime"
Runtimes == {"Runtime", "FaultyRuntime"}

\* lines 118-125: the value of js_runtime; a constructor that raises
\* leaves None
CreateRuntime(use_jaseci, ctor_raises, kind) ==
  IF use_jaseci
  THEN (IF ctor_raises THEN NoRuntime ELSE kind)
  ELSE NoRuntime

\* MirrorNode with a fault: the exception of create_node leaves main()
MirrorNodeUnguarded(rt) ==
  IF rt = NoRuntime THEN "skipped"
  ELSE IF rt = "FaultyRuntime" THEN "raise"
  ELSE "returned"

\* lines 138-142 and 152-156 with maybe_create_jaseci_nodes: without a
\* runtime no call is made, and an exception of create_node is swallowed
MirrorNode(rt) ==
  IF rt = NoRuntime THEN "skipped"
  ELSE IF rt = "FaultyRuntime" THEN "swallowed"
  ELSE "returned"

\* lines 157-169: load the script and run the walker; an exception is
\* printed and swallowed
RunWalkerOutcome(jac_exists, rt) ==
  IF ~(jac_exists /\ rt # NoRuntime) THEN "skipped"
  ELSE IF rt = "FaultyRuntime" THEN "swallowed"
  ELSE "returned"

\* ------------------------------------------------------------ rendering
\* linked_docs with a fault: the destination of the edge is not compared
linked_docs_any_file(edges, fnode) ==
  LET Linked(e) == e.j_type = "for_file"
      es == SelectSeq(edges, Linked)
  IN [i \in 1..Len(es) |-> es[i].source]

linked_docs(edges, fnode) ==
  LET Linked(e) == e.j_type = "for_file" /\ e.dest = fnode
      es == SelectSeq(edges, Linked)
  IN [i \in 1..Len(es) |-> es[i].source]

RECURSIVE DocLines(_, _)
DocLines(nodes, ds) ==
  IF ds = <<>> THEN <<>>
  ELSE << <<"## ">> \o nodes[Head(ds)].props.title \o <<NL>>,
          nodes[Head(ds)].props.body \o <<NL>> >>
       \o DocLines(nodes, Tail(ds))

\* lines 171-181: the text written for a file node
RenderText(nodes, edges, fnode) ==
  LET path == nodes[fnode].props.path
      ds == linked_docs(edges, fnode)
      lines == << <<"# ">> \o PathName(path) \o <<NL>>,
                  <<"_path_: ", BACKQUOTE>> \o path \o <<BACKQUOTE, NL>> >>
               \o (IF ds = <<>> THEN << <<"No extracted docs found.", NL>> >>
                   ELSE DocLines(nodes, ds))
  IN Join(lines, <<NL>>)

OutName(nodes, fnode) == PathName(nodes[fnode].props.path) \o <<".", "m", "d">>

\* WriteText with a fault: the text is appended to an existing file
WriteTextAppend(d, out, text) ==
  [x \in DOMAIN d \cup {out} |->
     IF x = out THEN (IF out \in DOMAIN d THEN d[out] \o text ELSE text)
     ELSE d[x]]

\* out.write_text(text): create or overwrite
WriteText(d, out, text) ==
  [x \in DOMAIN d \cup {out} |-> IF x = out THEN text ELSE d[x]]

\* ------------------------------------------------------------ the walk
SeqsUpTo(S, n) == UNION {[1..m -> S] : m \in 0..n}

FileCands == [root : Roots, fn : FileNames, content : Contents]

\* os.walk is top-down: the files of SRC_DIR come before those of its
\* subdirectory; a directory holds a name once
Trees ==
  {t \in SeqsUpTo(FileCands, MaxFiles) :
     /\ \A i, j \in 1..Len(t) :
          i < j => ~(t[i].root = t[j].root /\ t[i].fn = t[j].fn)
     /\ \A i, j \in 1..Len(t) :
          i < j => ~(t[i].root = SUB_DIR /\ t[j].root = SRC_DIR)}

\* lines 126-131
Walk(t) ==
  LET Keep(f) == Admitted(f.fn)
  IN SelectSeq(t, Keep)

\* Placeholder with a fault: no placeholder item
PlaceholderNone(its, name) == its

\* Placeholder with a fault: the placeholder does not name the file
PlaceholderNoName(its, name) ==
  IF its = <<>>
  THEN << << <<"Summary">>, <<"No docstrings or comment blocks found">> >> >>
  ELSE its

\* lines 147-148
Placeholder(its, name) ==
  IF its = <<>>
  THEN << << <<"Summary">>,
             <<"No docstrings or comment blocks found in ">> \o name >> >>
  ELSE its

\* lines 143-146: if path.suffix == ".py"
Extractor(fn) ==
  IF PathSuffix(fn) = EXT_PY THEN "parse_python" ELSE "parse_generic_comments"

EmptyDocs == [x \in {} |-> <<>>]
NoSnap == [taken |-> FALSE]

Init ==
  /\ tree \in Trees
  /\ docs = EmptyDocs
  /\ run = 1
  /\ pc = "start"
  /\ js_runtime = NoRuntime
  /\ file_paths = <<>>
  /\ idx = 0
  /\ content = <<>>
  /\ file_node = 0
  /\ items = <<>>
  /\ k = 0
  /\ doc_node = 0
  /\ g_nodes = <<>>
  /\ g_edges = <<>>
  /\ r = 0
  /\ writes = <<>>
  /\ extracted = <<>>
  /\ snap = NoSnap

\* where the loop over files goes after the current file
AfterFile == IF idx < Len(file_paths) THEN "read" ELSE "walker"

\* lines 117-134: new graph, runtime, walk
Start ==
  /\ pc = "start"
  /\ \E use_jaseci, ctor_raises \in BOOLEAN, kind \in Runtimes :
       js_runtime' = CreateRuntime(use_jaseci, ctor_raises, kind)
  /\ pc' = IF Walk(tree) = <<>> THEN "done" ELSE "read"
  /\ g_nodes' = <<>>
  /\ g_edges' = <<>>
  /\ file_paths' = Walk(tree)
  /\ idx' = 0
  /\ content' = <<>>
  /\ file_node' = 0
  /\ items' = <<>>
  /\ k' = 0
  /\ doc_node' = 0
  /\ r' = 0
  /\ writes' = <<>>
  /\ extracted' = <<>>
  /\ UNCHANGED <<tree, docs, run, snap>>

\* lines 135-142: read the next file, add its file node, mirror it
ReadFile ==
  /\ pc = "read"
  /\ idx < Len(file_paths)
  /\ LET path == file_paths[idx + 1]
     IN /\ idx' = idx + 1
        /\ content' = path.content
        /\ g_nodes' = add_node(g_nodes, "file",
                         [path |-> PathStr(path.root, path.fn),
                          content |-> path.content])
        /\ file_node' = Len(g_nodes) + 1
  /\ pc' = IF MirrorNode(js_runtime) = "raise" THEN "aborted" ELSE "extract"
  /\ UNCHANGED <<tree, docs, run, js_runtime, file_paths, items, k, doc_node,
                 g_edges, r, writes, extracted, snap>>

\* lines 143-148: choose the extractor, extract, add the placeholder
Extract ==
  /\ pc = "extract"
  /\ LET path == file_paths[idx]
         ex == Extractor(path.fn)
         its == IF ex = "parse_python" THEN parse_python(content)
                ELSE parse_generic_comments(content)
     IN /\ items' = Placeholder(its, path.fn)
        /\ extracted' = Append(extracted,
                           [file_node |-> file_node, fn |-> path.fn,
                            extractor |-> ex, items |-> its])
        /\ pc' = IF Placeholder(its, path.fn) = <<>> THEN AfterFile
                 ELSE "add_doc"
  /\ k' = 0
  /\ UNCHANGED <<tree, docs, run, js_runtime, file_paths, idx, content,
                 file_node, doc_node, g_nodes, g_edges, r, writes, snap>>

\* line 150: the doc node of the next item
AddDocNode ==
  /\ pc = "add_doc"
  /\ k < Len(items)
  /\ LET item == items[k + 1]
         suffix == PathSuffix(file_paths[idx].fn)
     IN g_nodes' = add_node(g_nodes, "doc",
                     [title |-> item[1],
                      body |-> Or(item[2], <<"(no description)">>),
                      lang |-> LStripDots(suffix)])
  /\ doc_node' = Len(g_nodes) + 1
  /\ k' = k + 1
  /\ pc' = "add_edge"
  /\ UNCHANGED <<tree, docs, run, js_runtime, file_paths, idx, content,
                 file_node, items, g_edges, r, writes, extracted, snap>>

\* lines 151-156: the edge of the doc node, mirror the doc node
AddEdge ==
  /\ pc = "add_edge"
  /\ g_edges' = add_edge(g_edges, "for_file", doc_node, file_node)
  /\ pc' = IF MirrorNode(js_runtime) = "raise" THEN "aborted"
           ELSE IF k < Len(items) THEN "add_doc"
           ELSE AfterFile
  /\ UNCHANGED <<tree, docs, run, js_runtime, file_paths, idx, content,
                 file_node, items, k, doc_node, g_nodes, r, writes,
                 extracted, snap>>

\* lines 157-169: the script and the walker
RunWalker ==
  /\ pc = "walker"
  /\ \E jac_exists \in BOOLEAN :
       pc' = IF RunWalkerOutcome(jac_exists, js_runtime) = "raise"
             THEN "aborted" ELSE "render"
  /\ r' = 0
  /\ UNCHANGED <<tree, docs, run, js_runtime, file_paths, idx, content,
                 file_node, items, k, doc_node, g_nodes, g_edges, writes,
                 extracted, snap>>

\* lines 170-184: render and write the next file node
RenderFile ==
  /\ pc = "render"
  /\ LET fns == find_nodes(g_nodes, "file")
     IN /\ r < Len(fns)
        /\ LET fnode == fns[r + 1]
               out == OutName(g_nodes, fnode)
               text == RenderText(g_nodes, g_edges, fnode)
           IN /\ docs' = WriteText(docs, out, text)
              /\ writes' = Append(writes,
                              [file_node |-> fnode, out |-> out, text |-> text])
        /\ r' = r + 1
        /\ pc' = IF r + 1 < Len(fns) THEN "render" ELSE "done"
  /\ UNCHANGED <<tree, run, js_runtime, file_paths, idx, content, file_node,
                 items, k, doc_node, g_nodes, g_edges, extracted, snap>>

\* main() is invoked again over the unchanged tree
NextRun ==
  /\ pc = "done"
  /\ run < MaxRuns
  /\ run' = run + 1
  /\ pc' = "start"
  /\ snap' = IF snap.taken THEN snap
             ELSE [taken |-> TRUE, js_runtime |-> js_runtime,
                   g_nodes |-> g_nodes, g_edges |-> g_edges,
                   writes |-> writes, docs |-> docs]
  /\ UNCHANGED <<tree, docs, js_runtime, file_paths, idx, content, file_node,
                 items, k, doc_node, g_nodes, g_edges, r, writes, extracted>>

Next ==
  \/ Start
  \/ ReadFile
  \/ Extract
  \/ AddDocNode
  \/ AddEdge
  \/ RunWalker
  \/ RenderFile
  \/ NextRun

Spec == Init /\ [][Next]_vars

\* ------------------------------- parse_generic_comments on every text
Alphabet == {"/", "*", "#", " ", NL, "a"}

InitGeneric ==
  /\ content \in SeqsUpTo(Alphabet, MaxLen)
  /\ pc = "gc_call"
  /\ items = <<>>
  /\ tree = <<>>
  /\ docs = EmptyDocs
  /\ run = 1
  /\ js_runtime = NoRuntime
  /\ file_paths = <<>>
  /\ idx = 0
  /\ file_node = 0
  /\ k = 0
  /\ doc_node = 0
  /\ g_nodes = <<>>
  /\ g_edges = <<>>
  /\ r = 0
  /\ writes = <<>>
  /\ extracted = <<>>
  /\ snap = NoSnap

\* items = parse_generic_comments(content)
GenericCall ==
  /\ pc = "gc_call"
  /\ items' = parse_generic_comments(content)
  /\ pc' = "gc_done"
  /\ UNCHANGED <<tree, docs, run, js_runtime, file_paths, idx, content,
                 file_node, k, doc_node, g_nodes, g_edges, r, writes,
                 extracted, snap>>

NextGeneric == GenericCall

SpecGeneric == InitGeneric /\ [][NextGeneric]_vars

\* ------------------------------------------------------------- claims
RECURSIVE SortedSeq(_)
SortedSeq(S) ==
  IF S = {} THEN <<>> ELSE <<Min(S)>> \o SortedSeq(S \ {Min(S)})

\* A block comment of text s: "/*" at i, and j the first "*/" from i + 2 on.
IsBlock(s, i, j) ==
  /\ At2(s, i, "/", "*")
  /\ j >= i + 2
  /\ At2(s, j, "*", "/")
  /\ \A m \in (i + 2)..(j - 1) : ~At2(s, m, "*", "/")

Blocks(s) == {p \in (1..Len(s)) \X (1..Len(s)) : IsBlock(s, p[1], p[2])}

\* The block comments a left-to-right scan reports: no two overlap, and a
\* block that is not reported starts inside a reported one.
ScannedBlocks(s) ==
  CHOOSE M \in SUBSET Blocks(s) :
    /\ \A p, q \in M : p # q => (p[2] + 1 < q[1] \/ q[2] + 1 < p[1])
    /\ \A p \in Blocks(s) \ M :
         \E q \in M : q[1] < p[1] /\ p[1] <= q[2] + 1

ExpectedBlockItems(s) ==
  LET starts == SortedSeq({p[1] : p \in ScannedBlocks(s)})
      Close(i) == CHOOSE j \in 1..Len(s) : <<i, j>> \in ScannedBlocks(s)
      bodies == [n \in 1..Len(starts) |->
                   Strip(SubSeq(s, starts[n] + 2, Close(starts[n]) - 1))]
      NonEmpty(b) == b # <<>>
      kept == SelectSeq(bodies, NonEmpty)
  IN [n \in 1..Len(kept) |-> <<COMMENT_BLOCK, kept[n]>>]

IsCommentLine(ln) ==
  \/ StartsWith(Strip(ln), <<"/", "/">>)
  \/ StartsWith(Strip(ln), <<"#">>)

CommentText(ln) ==
  IF StartsWith(Strip(ln), <<"/", "/">>)
  THEN Strip(SubSeq(Strip(ln), 3, Len(Strip(ln))))
  ELSE Strip(SubSeq(Strip(ln), 2, Len(Strip(ln))))

\* the first lines of the maximal runs of comment lines
RunStarts(lines) ==
  {i \in 1..Len(lines) :
     IsCommentLine(lines[i]) /\ (i = 1 \/ ~IsCommentLine(lines[i - 1]))}

RunEnd(lines, i) ==
  CHOOSE j \in i..Len(lines) :
    /\ \A m \in i..j : IsCommentLine(lines[m])
    /\ (j = Len(lines) \/ ~IsCommentLine(lines[j + 1]))

ExpectedRunItems(s) ==
  LET lines == SplitLines(s)
      starts == SortedSeq(RunStarts(lines))
  IN [n \in 1..Len(starts) |->
        <<COMMENT_BLOCK,
          Strip(Join([m \in 1..(RunEnd(lines, starts[n]) - starts[n] + 1) |->
                        CommentText(lines[starts[n] + m - 1])], <<NL>>))>>]

WritesOf(fnode) == {i \in 1..Len(writes) : writes[i].file_node = fnode}

\* the titles of the subheading lines of a markdown text, in order
Subheadings(text) ==
  LET IsSub(ln) == ln # <<>> /\ Head(ln) = "## "
      subs == SelectSeq(SplitLines(text), IsSub)
  IN [i \in 1..Len(subs) |-> Tail(subs[i])]

Titles(its) == [i \in 1..Len(its) |-> its[i][1]]

\* C1: after a complete run every discovered file has its own output file
\* <original filename>.md, holding the text rendered from its file node.
C1_OneOutputPerFile ==
  pc = "done" =>
    \A i \in 1..Len(extracted) :
      LET out == extracted[i].fn \o <<".", "m", "d">>
      IN /\ out \in DOMAIN docs
         /\ docs[out] = RenderText(g_nodes, g_edges, extracted[i].file_node)

\* C2: the markdown written for a file with a non-empty extraction has one
\* subheading per extracted item, titled as the items, in their order.
C2_SubheadingPerItem ==
  pc = "done" =>
    \A i \in 1..Len(extracted) :
      extracted[i].items # <<>> =>
        /\ Cardinality(WritesOf(extracted[i].file_node)) = 1
        /\ \A w \in WritesOf(extracted[i].file_node) :
             Subheadings(writes[w].text) = Titles(extracted[i].items)

\* two files with different non-empty extractions have been written
C2_Witness ==
  /\ pc = "done"
  /\ \E i, j \in 1..Len(extracted) :
       /\ Len(extracted[i].items) >= 2
       /\ extracted[j].items # <<>>
       /\ Titles(extracted[i].items) # Titles(extracted[j].items)
       /\ WritesOf(extracted[i].file_node) # {}

\* C3: the markdown written for a file with an empty extraction has the
\* single subheading "Summary", followed by the placeholder text that names
\* the file.
C3_SummaryPlaceholder ==
  pc = "done" =>
    \A i \in 1..Len(extracted) :
      extracted[i].items = <<>> =>
        /\ Cardinality(WritesOf(extracted[i].file_node)) = 1
        /\ \A w \in WritesOf(extracted[i].file_node) :
             /\ Subheadings(writes[w].text) = << <<"Summary">> >>
             /\ EndsWith(writes[w].text,
                         <<"## ", "Summary", NL, NL,
                           "No docstrings or comment blocks found in ">>
                         \o extracted[i].fn \o <<NL>>)

\* a file without items has been written, next to a file with items
C3_Witness ==
  /\ pc = "done"
  /\ \E i, j \in 1..Len(extracted) :
       /\ extracted[i].items = <<>>
       /\ extracted[j].items # <<>>
       /\ WritesOf(extracted[i].file_node) # {}

\* the extractor the allow-list test of the walk announces
ExtractorByAllowList(fn) ==
  IF EndsWith(Lower(fn), EXT_PY) THEN "parse_python"
  ELSE "parse_generic_comments"

\* C4: a file admitted because its lower-cased name ends with .py is
\* extracted with parse_python, any other admitted file with
\* parse_generic_comments.
C4_ExtractorAgreesWithAllowList ==
  \A i \in 1..Len(extracted) :
    /\ Admitted(extracted[i].fn)
    /\ extracted[i].extractor = ExtractorByAllowList(extracted[i].fn)

Unparsable(i) ==
  /\ EndsWith(Lower(extracted[i].fn), EXT_PY)
  /\ ast_parse(g_nodes[extracted[i].file_node].props.content).raises

\* C5: a .py file whose text does not parse does not abort the run: its
\* items are those of parse_generic_comments on the same text, the other
\* files are processed, and its markdown is written.
C5_ParseFailureFallsBack ==
  /\ pc # "aborted"
  /\ \A i \in 1..Len(extracted) :
       Unparsable(i) =>
         extracted[i].items =
           parse_generic_comments(g_nodes[extracted[i].file_node].props.content)
  /\ pc = "done" =>
       /\ Len(extracted) = Len(file_paths)
       /\ \A i \in 1..Len(extracted) :
            Unparsable(i) => WritesOf(extracted[i].file_node) # {}

\* an unparsable file handed to parse_python, a file after it, both written
C5_Witness ==
  /\ pc = "done"
  /\ \E i \in 1..Len(extracted) :
       /\ Unparsable(i)
       /\ extracted[i].extractor = "parse_python"
       /\ extracted[i].items # <<>>
       /\ i < Len(extracted)
       /\ WritesOf(extracted[i].file_node) # {}
       /\ WritesOf(extracted[i + 1].file_node) # {}

\* C6: a second run over the unchanged tree leaves DOCS_DIR as the first
\* run left it.
C6_Idempotent ==
  (run >= 2 /\ pc = "done") => docs = snap.docs

\* the second run has written again, over the files of the first
C6_Witness ==
  /\ run = 2
  /\ pc = "done"
  /\ Len(writes) >= 2
  /\ snap.docs # EmptyDocs

\* C7: with a runtime that is absent, fails to construct or raises on
\* every call, the run is not aborted, and graph and written files are those
\* of a run without a runtime.
C7_RuntimeInert ==
  /\ pc # "aborted"
  /\ (run >= 2 /\ pc = "done"
        /\ (snap.js_runtime = NoRuntime \/ js_runtime = NoRuntime)) =>
       /\ g_nodes = snap.g_nodes
       /\ g_edges = snap.g_edges
       /\ writes = snap.writes

\* a run without runtime, then a complete run with a runtime whose calls
\* all raise
C7_Witness ==
  /\ run = 2
  /\ pc = "done"
  /\ snap.js_runtime = NoRuntime
  /\ js_runtime = "FaultyRuntime"
  /\ Len(g_edges) >= 2
  /\ writes # <<>>

\* C8: every edge is a for_file edge from a doc node to a file node, both
\* in g.nodes.
C8_EdgesWellFormed ==
  \A i \in 1..Len(g_edges) :
    /\ g_edges[i].j_type = "for_file"
    /\ g_edges[i].source \in 1..Len(g_nodes)
    /\ g_edges[i].dest \in 1..Len(g_nodes)
    /\ g_nodes[g_edges[i].source].j_type = "doc"
    /\ g_nodes[g_edges[i].dest].j_type = "file"

\* in the middle of main(): edges to two file nodes, the next doc node added
C8_Witness ==
  /\ pc = "add_edge"
  /\ \E i, j \in 1..Len(g_edges) : g_edges[i].dest # g_edges[j].dest

\* C10: when rendering starts every file node has a linked doc node, and
\* no written text holds the line "No extracted docs found.".
C10_NoFileWithoutDocs ==
  /\ pc = "render" =>
       \A f \in 1..Len(g_nodes) :
         g_nodes[f].j_type = "file" => linked_docs(g_edges, f) # <<>>
  /\ \A w \in 1..Len(writes) :
       \A i \in 1..Len(writes[w].text) :
         writes[w].text[i] # "No extracted docs found."

\* rendering starts with a file whose extractor returned nothing
C10_Witness ==
  /\ pc = "render"
  /\ \E i \in 1..Len(extracted) : extracted[i].items = <<>>

====
